---- MODULE Spec2Model ----
(***************************************************************************)
(* FetchOPCProcessor (extensions/opc/src/fetchopc.cpp) as a state machine. *)
(*                                                                         *)
(* The processor's fields are the variables ending in "_".  The host calls *)
(* onSchedule while no onTrigger is in flight and then calls onTrigger     *)
(* from several threads; every thread has a position pc[t] in onTrigger,   *)
(* in the visitor nodeFoundCallBack and in OPCData2FlowFile.  The remote   *)
(* client (reconnect, translateBrowsePathsToNodeIdsRequest, traverse,     *)
(* getNodeData) and the session (create, write, transfer) are              *)
(* collaborators: each call is a step whose outcome is chosen freely.      *)
(***************************************************************************)
EXTENDS Integers, Sequences, FiniteSets, TLC

\* ------------------------------------------------------------- bounds
NumThreads == 2
MaxRoots == 2
\* the references the traverse calls of one invocation hand to the visitor
MaxNodes == 3
\* the edges between a root and the deepest node below it
MaxEdges == 2

\* ------------------------------------------------------------- values
Threads == 1..NumThreads
NoThread == 0

\* opc::OPCNodeIDType
OPCNodeIDType == {"Path", "Int", "String"}

\* Texts are sequences of one-character strings.
IntMax == 2147483647
Digits == {"0", "1", "2", "3", "4", "5", "6", "7", "8", "9"}
DigitValue(c) ==
  CASE c = "0" -> 0 [] c = "1" -> 1 [] c = "2" -> 2 [] c = "3" -> 3 [] c = "4" -> 4
    [] c = "5" -> 5 [] c = "6" -> 6 [] c = "7" -> 7 [] c = "8" -> 8 [] c = "9" -> 9

RECURSIVE SkipSpace(_)
SkipSpace(s) == IF s # <<>> /\ Head(s) = " " THEN SkipSpace(Tail(s)) ELSE s

RECURSIVE DigitPrefix(_)
DigitPrefix(s) ==
  IF s # <<>> /\ Head(s) \in Digits THEN <<Head(s)>> \o DigitPrefix(Tail(s)) ELSE <<>>

RECURSIVE DigitsToNat(_, _)
DigitsToNat(ds, acc) ==
  IF ds = <<>> THEN acc ELSE DigitsToNat(Tail(ds), 10 * acc + DigitValue(Head(ds)))

\* std::stoi(str): leading white space is skipped, an optional sign is read, then
\* the longest run of digits; what follows the digits is ignored.  It throws
\* when there is no digit to convert or when the value does not fit an int.
stoi(s) ==
  LET t == SkipSpace(s)
      neg == t # <<>> /\ Head(t) = "-"
      u == IF t # <<>> /\ Head(t) \in {"-", "+"} THEN Tail(t) ELSE t
      ds == DigitPrefix(u)
      n == DigitsToNat(ds, 0)
  IN  IF ds = <<>> THEN [ok |-> FALSE, value |-> 0]
      ELSE IF (neg /\ n > IntMax + 1) \/ (~neg /\ n > IntMax) THEN [ok |-> FALSE, value |-> 0]
      ELSE [ok |-> TRUE, value |-> IF neg THEN 0 - n ELSE n]

\* Property values the host may put in the ProcessContext.
NodeIDValues == {<<"4", "2">>, <<"4", "x">>, <<"x">>}
NodeIDTypeValues == OPCNodeIDType \cup {"Bogus"}
NameSpaceIndexValues == {1}
MaxDepthValues == {0, 1}

\* Property "Namespace index" is built withDefaultValue<int32_t>(0).
NameSpaceIndexDefault == 0
NameSpaceIndexHasDefault == TRUE

Contexts ==
  [nodeID : NodeIDValues, nodeIDType : NodeIDTypeValues,
   nsSupplied : BOOLEAN, ns : NameSpaceIndexValues, maxDepth : MaxDepthValues]

\* The configurations the processor is run with when its invocations are explored.
RunContexts ==
  {c \in Contexts : /\ c.nsSupplied
                    /\ c.maxDepth = 1 \/ (c.maxDepth = 0 /\ c.nodeIDType = "String")
                    /\ \/ c.nodeID = <<"4", "2">> /\ c.nodeIDType \in OPCNodeIDType
                       \/ c.nodeID = <<"x">> /\ c.nodeIDType = "Int"}

NoContext ==
  [nodeID |-> <<>>, nodeIDType |-> "", nsSupplied |-> FALSE, ns |-> 0, maxDepth |-> 0]

\* context->getProperty(NameSpaceIndex.getName(), nameSpaceIdx_): whether a value
\* is found, and the value stored.
NameSpaceIndexFound(c) == c.nsSupplied \/ NameSpaceIndexHasDefault
NameSpaceIndexValue(c) == IF c.nsSupplied THEN c.ns ELSE NameSpaceIndexDefault

VARIABLES
  context,             \* the properties of the ProcessContext given to onSchedule
  configOK_, idType_, nodeID_, nameSpaceIdx_, maxDepth_,
  translatedNodeIDs_,  \* the path cache
  nodesFound_, variablesFound_,
  onTriggerMutex_,     \* the thread that owns the mutex, or NoThread
  pc,                  \* pc[t]: position of thread t
  local,               \* local[t]: the locals of t's call chain
  flowFile,            \* flowFile[t]: the record OPCData2FlowFile of t works on
  sess,                \* sess[t]: what t's ProcessSession was asked to do
  last                 \* the return from onTrigger the latest step made, if it made one:
                       \* who returned, how, and whether yield() was called

vars ==
  <<context, configOK_, idType_, nodeID_, nameSpaceIdx_, maxDepth_,
    translatedNodeIDs_, nodesFound_, variablesFound_, onTriggerMutex_,
    pc, local, flowFile, sess, last>>

fields ==
  <<configOK_, idType_, nodeID_, nameSpaceIdx_, maxDepth_, translatedNodeIDs_>>
counters == <<nodesFound_, variablesFound_>>

\* opc::NodeData as getNodeData returns it: the attributes (key/value pairs) and
\* whether the node carries data (data.size() > 0).
NoNodeData == [attributes |-> {}, hasData |-> FALSE]
NodeDatas ==
  [attributes : {{<<"Browsename", "n">>, <<"Typename", "Int32">>}}, hasData : BOOLEAN]

\* UA_NodeId
NoNodeId == [namespaceIndex |-> 0, identifierType |-> "none", identifier |-> <<>>]

NoFlowFile == [exists |-> FALSE, attributes |-> {}, payload |-> FALSE,
               write |-> "none", routes |-> <<>>]
NoSess == [created |-> 0, Success |-> 0, Failure |-> 0]
NoEntry == [nodes |-> 0, variables |-> 0, sess |-> NoSess]
\* sc: the status code of the translation request, for as long as lines 168-175
\* are being executed;
\* root: the index of the next node id to traverse; size, pos: the references the
\* running traverse call has to offer and has handed over; offered: those all the
\* traverse calls of the invocation had to offer; fault: whether one of them met a
\* remote fault; maxDepth: the depth given to the running traverse call; depth: the
\* edges between its root and the reference it hands over next; class, read,
\* data, entry: the visitor's reference, how reading it went, what was read, and
\* the counters and the session as the visitor found them.
NoLocal == [direct |-> FALSE, myID |-> NoNodeId, sc |-> "none", root |-> 0, size |-> 0,
            pos |-> 0, offered |-> 0, fault |-> FALSE, maxDepth |-> 0, depth |-> 0,
            class |-> "none", read |-> "none", data |-> NoNodeData, entry |-> NoEntry]
NoReturn == [thread |-> NoThread, how |-> "none", yielded |-> FALSE]

\* The fields after construction (fetchopc.h): the counters and the indices are
\* zero, the cache is empty, and idType_, which gets no initial value, holds any
\* of the enumerators.
Init ==
  /\ context = NoContext
  /\ configOK_ = FALSE
  /\ idType_ \in OPCNodeIDType
  /\ nodeID_ = <<>>
  /\ nameSpaceIdx_ = 0
  /\ maxDepth_ = 0
  /\ translatedNodeIDs_ = <<>>
  /\ nodesFound_ = 0
  /\ variablesFound_ = 0
  /\ onTriggerMutex_ = NoThread
  /\ pc = [t \in Threads |-> "idle"]
  /\ local = [t \in Threads |-> NoLocal]
  /\ flowFile = [t \in Threads |-> NoFlowFile]
  /\ sess = [t \in Threads |-> NoSess]
  /\ last = NoReturn

\* ------------------------------------------------------------- onSchedule
\* BaseOPCProcessor::onSchedule reads the endpoint and security settings and
\* leaves configOK_ true or false.
BaseOnSchedule(ok) == ok

\* Lines 103-112: the mode a "Node ID type" text selects; an unknown text is
\* logged and idType_ keeps the value it had.
SelectIdType(value, old) ==
  IF value = "String" THEN "String"
  ELSE IF value = "Int" THEN "Int"
  ELSE IF value = "Path" THEN "Path"
  ELSE old

\* Lines 114-121: an Int identifier must convert with std::stoi.
IntCheckPasses(type, id) == type = "Int" => stoi(id).ok

\* Lines 122-127: outside Path mode the namespace index property must be found.
NameSpaceCheckPasses(type, c) == type # "Path" => NameSpaceIndexFound(c)

\* Fault: the cache outlives the restart.
ClearCache_Kept(cache) == cache

\* Line 86: translatedNodeIDs_.clear().
ClearCache(cache) == <<>>

\* Lines 83-130.  The host calls onSchedule when the processor is (re)started,
\* with no onTrigger call in flight.
OnSchedule(c, baseOK) ==
  /\ \A t \in Threads : pc[t] = "idle"
  /\ context' = c
  /\ translatedNodeIDs_' = ClearCache(translatedNodeIDs_)
  /\ IF ~BaseOnSchedule(baseOK)
       THEN /\ configOK_' = FALSE
            /\ UNCHANGED <<idType_, nodeID_, nameSpaceIdx_, maxDepth_>>
       ELSE LET type == SelectIdType(c.nodeIDType, idType_) IN
            /\ nodeID_' = c.nodeID
            /\ maxDepth_' = c.maxDepth
            /\ idType_' = type
            /\ IF ~IntCheckPasses(type, c.nodeID)
                 THEN /\ configOK_' = FALSE
                      /\ UNCHANGED nameSpaceIdx_
                 ELSE IF type = "Path"
                 THEN /\ configOK_' = TRUE
                      /\ UNCHANGED nameSpaceIdx_
                 ELSE /\ configOK_' = NameSpaceCheckPasses(type, c)
                      /\ nameSpaceIdx_' =
                           IF NameSpaceIndexFound(c) THEN NameSpaceIndexValue(c)
                           ELSE nameSpaceIdx_
  /\ UNCHANGED <<counters, onTriggerMutex_, pc, local, flowFile, sess>>
  /\ last' = NoReturn

\* ------------------------------------------------------------- onTrigger
\* The positions at which a thread is past the execution guard (Running).
RunningPCs ==
  {"reconnect", "reset_nodes", "reset_variables", "dispatch", "translate", "translated",
   "loop",
   "traverse", "cb_enter", "cb_read", "emit_create", "emit_attributes", "emit_write",
   "emit_failure", "emit_success", "cb_count", "cb_return", "final"}

\* A return (or an exception leaving onTrigger) destroys the locals and the
\* session of the call; yielded tells whether yield() was called before it.
Return(t, how, yielded) ==
  /\ pc' = [pc EXCEPT ![t] = "idle"]
  /\ last' = [thread |-> t, how |-> how, yielded |-> yielded]
  /\ local' = [local EXCEPT ![t] = NoLocal]
  /\ flowFile' = [flowFile EXCEPT ![t] = NoFlowFile]
  /\ sess' = [sess EXCEPT ![t] = NoSess]

\* Fault: the configuration test is left out.
NotConfigured_Ignored(ok) == FALSE

\* Line 133: the test that sends an invocation away.
NotConfigured(ok) == ~ok

\* Lines 132-139.
OnTriggerEnter(t) ==
  /\ pc[t] = "idle"
  /\ IF NotConfigured(configOK_)
       THEN Return(t, "not_configured", TRUE)
       ELSE /\ pc' = [pc EXCEPT ![t] = "trylock"]
            /\ UNCHANGED <<local, flowFile, sess>>
            /\ last' = NoReturn
  /\ UNCHANGED <<context, fields, counters, onTriggerMutex_>>

\* Fault: the lock is taken whether or not another thread owns it.
TryToLock_Always(owner, t) == t

\* Line 141: std::unique_lock<std::mutex> lock(onTriggerMutex_, std::try_to_lock):
\* the owner of the mutex after thread t tried to lock it.
TryToLock(owner, t) == IF owner = NoThread THEN t ELSE owner

\* Fault: the return of line 144 is missing.
Skipped_Never(owner, t) == FALSE

\* Line 142: !lock.owns_lock().
Skipped(owner, t) == owner # t

\* Lines 141-145.
TryLock(t) ==
  /\ pc[t] = "trylock"
  /\ LET owner == TryToLock(onTriggerMutex_, t) IN
     IF ~Skipped(owner, t)
       THEN /\ onTriggerMutex_' = owner
            /\ pc' = [pc EXCEPT ![t] = "reconnect"]
            /\ UNCHANGED <<local, flowFile, sess>>
            /\ last' = NoReturn
       ELSE /\ Return(t, "skipped", FALSE)
            /\ UNCHANGED onTriggerMutex_
  /\ UNCHANGED <<context, fields, counters>>

\* Fault: the mutex is not released.
Unlock_Forgotten(owner, t) == owner

\* unique_lock's destructor: the owner after thread t left onTrigger.
Unlock(owner, t) == IF owner = t THEN NoThread ELSE owner

\* Fault: the invocation returns without yield().
YieldOnReconnect_Never(ok) == FALSE

\* Lines 147-148: yield() is called when reconnect() gave false.
YieldOnReconnect(ok) == ~ok

\* Lines 147-150.  reconnect() is BaseOPCProcessor's; it reports whether a
\* connection stands.
Reconnect(t, ok) ==
  /\ pc[t] = "reconnect"
  /\ IF ~ok
       THEN /\ onTriggerMutex_' = Unlock(onTriggerMutex_, t)
            /\ Return(t, "not_connected", YieldOnReconnect(ok))
       ELSE /\ pc' = [pc EXCEPT ![t] = "reset_nodes"]
            /\ UNCHANGED <<onTriggerMutex_, local, flowFile, sess>>
            /\ last' = NoReturn
  /\ UNCHANGED <<context, fields, counters>>

\* Fault: the counter keeps the count of the invocation before.
ResetCounter_Kept(n) == n

\* Lines 152 and 153: the value assigned to a counter.
ResetCounter(n) == 0

\* Line 152.
ResetNodesFound(t) ==
  /\ pc[t] = "reset_nodes"
  /\ nodesFound_' = ResetCounter(nodesFound_)
  /\ pc' = [pc EXCEPT ![t] = "reset_variables"]
  /\ UNCHANGED <<context, fields, variablesFound_, onTriggerMutex_, local, flowFile, sess>>
  /\ last' = NoReturn

\* Line 153.
ResetVariablesFound(t) ==
  /\ pc[t] = "reset_variables"
  /\ variablesFound_' = ResetCounter(variablesFound_)
  /\ pc' = [pc EXCEPT ![t] = "dispatch"]
  /\ UNCHANGED <<context, fields, nodesFound_, onTriggerMutex_, local, flowFile, sess>>
  /\ last' = NoReturn

\* Lines 157-165: the UA_NodeId built outside Path mode.
MyID(type, id, ns) ==
  IF type = "Int"
    THEN [namespaceIndex |-> ns, identifierType |-> "numeric",
          identifier |-> <<stoi(id).value>>]
    ELSE [namespaceIndex |-> ns, identifierType |-> "string", identifier |-> id]

\* Fault: the request is made whether or not the cache holds node ids.
NeedsTranslation_Always(cache) == TRUE

\* Line 168: translatedNodeIDs_.empty().
NeedsTranslation(cache) == cache = <<>>

\* Lines 156-168: the branch on the identifier mode.  std::stoi at line 161
\* throws out of onTrigger when the text does not convert.
Dispatch(t) ==
  /\ pc[t] = "dispatch"
  /\ IF idType_ # "Path"
       THEN IF idType_ = "Int" /\ ~stoi(nodeID_).ok
              THEN /\ onTriggerMutex_' = Unlock(onTriggerMutex_, t)
                   /\ Return(t, "exception", FALSE)
              ELSE /\ local' = [local EXCEPT ![t] =
                         [@ EXCEPT !.direct = TRUE, !.root = 1,
                                   !.myID = MyID(idType_, nodeID_, nameSpaceIdx_)]]
                   /\ pc' = [pc EXCEPT ![t] = "loop"]
                   /\ UNCHANGED <<onTriggerMutex_, flowFile, sess>>
                   /\ last' = NoReturn
       ELSE /\ local' = [local EXCEPT ![t] = [@ EXCEPT !.direct = FALSE, !.root = 1]]
            /\ pc' = [pc EXCEPT ![t] =
                        IF NeedsTranslation(translatedNodeIDs_) THEN "translate" ELSE "loop"]
            /\ UNCHANGED <<onTriggerMutex_, flowFile, sess>>
            /\ last' = NoReturn
  /\ UNCHANGED <<context, fields, counters>>

\* connection_->translateBrowsePathsToNodeIdsRequest(nodeID_, translatedNodeIDs_,
\* logger_): the status code and the node ids it appends to the list.  The i-th
\* target of a browse path is a node of its own, named here by the path and i.
PathNodeId(path, i) ==
  [namespaceIndex |-> 0, identifierType |-> "string", identifier |-> <<path, i>>]
TranslateResults(path) ==
  {[sc |-> "BAD", found |-> <<>>]}
    \cup {[sc |-> "GOOD", found |-> [i \in 1..n |-> PathNodeId(path, i)]] : n \in 0..MaxRoots}

\* Line 169: the request, which appends to the cache and gives the status code.
Translate(t, r) ==
  /\ pc[t] = "translate"
  /\ translatedNodeIDs_' = translatedNodeIDs_ \o r.found
  /\ local' = [local EXCEPT ![t].sc = r.sc]
  /\ pc' = [pc EXCEPT ![t] = "translated"]
  /\ UNCHANGED <<context, configOK_, idType_, nodeID_, nameSpaceIdx_, maxDepth_,
                 counters, onTriggerMutex_, flowFile, sess>>
  /\ last' = NoReturn

\* Fault: the status code is not looked at.
TranslationFailed_Ignored(sc) == FALSE

\* Line 170: sc != UA_STATUSCODE_GOOD.
TranslationFailed(sc) == sc # "GOOD"

\* Lines 170-175: the test of the status code; sc ends with the block.
CheckTranslation(t) ==
  /\ pc[t] = "translated"
  /\ IF TranslationFailed(local[t].sc)
       THEN /\ onTriggerMutex_' = Unlock(onTriggerMutex_, t)
            /\ Return(t, "not_translated", TRUE)
       ELSE /\ local' = [local EXCEPT ![t].sc = "none"]
            /\ pc' = [pc EXCEPT ![t] = "loop"]
            /\ UNCHANGED <<onTriggerMutex_, flowFile, sess>>
            /\ last' = NoReturn
  /\ UNCHANGED <<context, fields, counters>>

\* The node ids the invocation traverses: myID (line 166) or the cache (line 176).
Roots(t) == IF local[t].direct THEN <<local[t].myID>> ELSE translatedNodeIDs_

\* Fault: the loop runs once more than there are node ids.
MoreRoots_OneTooMany(root, roots) == root <= Len(roots) + 1

\* Line 176: whether the range-for has a node id left (line 166: the one call).
MoreRoots(root, roots) == root <= Len(roots)

\* Lines 166 and 176-178: the next traverse call, or the end of the loop.
NextRoot(t) ==
  /\ pc[t] = "loop"
  /\ IF MoreRoots(local[t].root, Roots(t))
       THEN pc' = [pc EXCEPT ![t] = "traverse"]
       ELSE pc' = [pc EXCEPT ![t] = "final"]
  /\ UNCHANGED <<context, fields, counters, onTriggerMutex_, local, flowFile, sess>>
  /\ last' = NoReturn

\* ------------------------------------------------------------- traversal
NodeClasses == {"Variable", "Object"}

\* connection_->traverse(root, f, pathLabel, maxDepth_) hands the visitor one
\* reference after the other for as long as the visitor answers true; size is
\* the number of references the walk from this root has to offer.
TraverseContinues(answer, pos, size) == answer /\ pos < size

\* The walk is bounded in depth: with maxDepth = d > 0 it hands over no reference
\* more than d edges from the root, and with maxDepth = 0 it goes as deep as the
\* address space does.
DepthAllowed(maxDepth, depth) == maxDepth = 0 \/ depth <= maxDepth

\* Fault: the argument is left out and traverse takes its default.
TraverseDepth_Default(maxDepth) == 0

\* Lines 166 and 177: the last argument of the call.
TraverseDepth(maxDepth) == maxDepth

\* Lines 166 and 177: the call of traverse; depth is that of the first reference.
Traverse(t, size, depth) ==
  /\ pc[t] = "traverse"
  /\ nodesFound_ + size <= MaxNodes
  /\ IF size = 0
       THEN /\ depth = 0
            /\ local' = [local EXCEPT ![t] =
                  [@ EXCEPT !.root = @ + 1, !.size = 0, !.pos = 0,
                            !.maxDepth = TraverseDepth(maxDepth_)]]
            /\ pc' = [pc EXCEPT ![t] = "loop"]
       ELSE /\ DepthAllowed(TraverseDepth(maxDepth_), depth)
            /\ local' = [local EXCEPT ![t] =
                  [@ EXCEPT !.size = size, !.pos = 0, !.offered = @ + size,
                            !.maxDepth = TraverseDepth(maxDepth_), !.depth = depth]]
            /\ pc' = [pc EXCEPT ![t] = "cb_enter"]
  /\ UNCHANGED <<context, fields, counters, onTriggerMutex_, flowFile, sess>>
  /\ last' = NoReturn

\* A remote fault during the walk: traverse hands over no further reference of
\* this root and comes back to its caller, which does not look at how it went
\* (lines 166 and 177 are plain call statements).  The references not handed over
\* are no longer on offer.
TraverseFault(t) ==
  /\ pc[t] = "cb_enter"
  /\ local' = [local EXCEPT ![t] =
        [@ EXCEPT !.fault = TRUE, !.offered = @ - (local[t].size - local[t].pos),
                  !.size = local[t].pos, !.root = @ + 1, !.depth = 0]]
  /\ pc' = [pc EXCEPT ![t] = "loop"]
  /\ UNCHANGED <<context, fields, counters, onTriggerMutex_, flowFile, sess>>
  /\ last' = NoReturn

\* ------------------------------------------------------------- nodeFoundCallBack
\* Fault: the node class is not looked at.
IsVariable_Any(class) == TRUE

\* Line 193: the references whose data is read.
IsVariable(class) == class = "Variable"

\* Fault: the reference is not counted.
CountNode_Forgotten(n) == n

\* Line 192: nodesFound_++.
CountNode(n) == n + 1

\* Lines 192-193.
CallBackEnter(t, class) ==
  /\ pc[t] = "cb_enter"
  /\ nodesFound_' = CountNode(nodesFound_)
  /\ local' = [local EXCEPT ![t] =
        [@ EXCEPT !.pos = @ + 1, !.depth = 0, !.class = class, !.read = "none",
                  !.data = NoNodeData,
                  !.entry = [nodes |-> nodesFound_, variables |-> variablesFound_,
                             sess |-> sess[t]]]]
  /\ flowFile' = [flowFile EXCEPT ![t] = NoFlowFile]
  /\ pc' = [pc EXCEPT ![t] = IF IsVariable(class) THEN "cb_read" ELSE "cb_return"]
  /\ UNCHANGED <<context, fields, variablesFound_, onTriggerMutex_, sess>>
  /\ last' = NoReturn

\* connection_->getNodeData(ref) returns the node's data or throws.
GetNodeDataResults ==
  {[ok |-> FALSE, data |-> NoNodeData]} \cup {[ok |-> TRUE, data |-> d] : d \in NodeDatas}

\* Fault: the variable is counted although reading it threw.
AfterCatch_Counted == "cb_count"

\* Lines 199-202: where the visitor goes on after the exception is caught.
AfterCatch == "cb_return"

\* Lines 195-196 and 199-202.
GetNodeData(t, r) ==
  /\ pc[t] = "cb_read"
  /\ IF r.ok
       THEN /\ local' = [local EXCEPT ![t] = [@ EXCEPT !.read = "ok", !.data = r.data]]
            /\ pc' = [pc EXCEPT ![t] = "emit_create"]
       ELSE /\ local' = [local EXCEPT ![t] = [@ EXCEPT !.read = "failed"]]
            /\ pc' = [pc EXCEPT ![t] = AfterCatch]
  /\ UNCHANGED <<context, fields, counters, onTriggerMutex_, flowFile, sess>>
  /\ last' = NoReturn

\* ------------------------------------------------------------- OPCData2FlowFile
\* Lines 208-212: session->create(); without a record the function returns.
SessionCreate(t, ok) ==
  /\ pc[t] = "emit_create"
  /\ IF ok
       THEN /\ flowFile' = [flowFile EXCEPT ![t] = [NoFlowFile EXCEPT !.exists = TRUE]]
            /\ sess' = [sess EXCEPT ![t].created = @ + 1]
            /\ pc' = [pc EXCEPT ![t] = "emit_attributes"]
       ELSE /\ pc' = [pc EXCEPT ![t] = "cb_count"]
            /\ UNCHANGED <<flowFile, sess>>
  /\ UNCHANGED <<context, fields, counters, onTriggerMutex_, local>>
  /\ last' = NoReturn

\* Lines 213-215: the attributes the record gets from the node data.
CopyAttributes(attributes) == attributes

\* Lines 213-216.
SetAttributes(t) ==
  /\ pc[t] = "emit_attributes"
  /\ flowFile' = [flowFile EXCEPT ![t].attributes = CopyAttributes(local[t].data.attributes)]
  /\ pc' = [pc EXCEPT ![t] =
              IF local[t].data.hasData THEN "emit_write" ELSE "emit_success"]
  /\ UNCHANGED <<context, fields, counters, onTriggerMutex_, local, sess>>
  /\ last' = NoReturn

\* Fault: the failed write is swallowed and the record goes on to Success.
AfterWriteFailure_Swallowed == "emit_success"

\* Lines 220-226: where the function goes on after a failed write.
AfterWriteFailure == "emit_failure"

\* Lines 217-219: nodeValue2String and session->write(flowFile, &callback); either
\* may throw.
WritePayload(t, ok) ==
  /\ pc[t] = "emit_write"
  /\ IF ok
       THEN /\ flowFile' = [flowFile EXCEPT ![t] = [@ EXCEPT !.payload = TRUE, !.write = "ok"]]
            /\ pc' = [pc EXCEPT ![t] = "emit_success"]
       ELSE /\ flowFile' = [flowFile EXCEPT ![t].write = "failed"]
            /\ pc' = [pc EXCEPT ![t] = AfterWriteFailure]
  /\ UNCHANGED <<context, fields, counters, onTriggerMutex_, local, sess>>
  /\ last' = NoReturn

\* session->transfer(flowFile, relationship)
Transfer(t, relationship) ==
  /\ flowFile' = [flowFile EXCEPT ![t].routes = Append(@, relationship)]
  /\ sess' = [sess EXCEPT ![t][relationship] = @ + 1]

\* Fault: the return is missing and the function falls through to line 228.
AfterTransferFailure_FallThrough == "emit_success"

\* Line 225: the return after the transfer to Failure.
AfterTransferFailure == "cb_count"

\* Lines 224-225.
TransferFailure(t) ==
  /\ pc[t] = "emit_failure"
  /\ Transfer(t, "Failure")
  /\ pc' = [pc EXCEPT ![t] = AfterTransferFailure]
  /\ UNCHANGED <<context, fields, counters, onTriggerMutex_, local>>
  /\ last' = NoReturn

\* Line 228.
TransferSuccess(t) ==
  /\ pc[t] = "emit_success"
  /\ Transfer(t, "Success")
  /\ pc' = [pc EXCEPT ![t] = "cb_count"]
  /\ UNCHANGED <<context, fields, counters, onTriggerMutex_, local>>
  /\ last' = NoReturn

\* Line 198.
CountVariable(t) ==
  /\ pc[t] = "cb_count"
  /\ variablesFound_' = variablesFound_ + 1
  /\ pc' = [pc EXCEPT ![t] = "cb_return"]
  /\ UNCHANGED <<context, fields, nodesFound_, onTriggerMutex_, local, flowFile, sess>>
  /\ last' = NoReturn

\* Line 204: the visitor's answer to the traversal.
CallBackAnswer(read) == TRUE

\* Line 204, and traverse going on to the next reference, depth edges from the
\* root, or returning.
CallBackReturn(t, depth) ==
  /\ pc[t] = "cb_return"
  /\ flowFile' = [flowFile EXCEPT ![t] = NoFlowFile]
  /\ IF TraverseContinues(CallBackAnswer(local[t].read), local[t].pos, local[t].size)
       THEN /\ DepthAllowed(local[t].maxDepth, depth)
            /\ local' = [local EXCEPT ![t] =
                  [@ EXCEPT !.class = "none", !.read = "none", !.data = NoNodeData,
                            !.entry = NoEntry, !.depth = depth]]
            /\ pc' = [pc EXCEPT ![t] = "cb_enter"]
       ELSE /\ depth = 0
            /\ local' = [local EXCEPT ![t] =
                  [@ EXCEPT !.class = "none", !.read = "none", !.data = NoNodeData,
                            !.entry = NoEntry, !.root = @ + 1]]
            /\ pc' = [pc EXCEPT ![t] = "loop"]
  /\ UNCHANGED <<context, fields, counters, onTriggerMutex_, sess>>
  /\ last' = NoReturn

\* ------------------------------------------------------------- end of onTrigger
\* Fault: the second test is left out.
YieldDecision_NodesOnly(nodes, variables) ==
  IF nodes = 0 THEN "no_nodes" ELSE "done"

\* Lines 180-186: the branch the end of onTrigger takes on the counters.
YieldDecision(nodes, variables) ==
  IF nodes = 0 THEN "no_nodes"
  ELSE IF variables = 0 THEN "no_variables"
  ELSE "done"

\* Lines 180-188: yield() is called in the first two branches.
Final(t) ==
  /\ pc[t] = "final"
  /\ onTriggerMutex_' = Unlock(onTriggerMutex_, t)
  /\ LET how == YieldDecision(nodesFound_, variablesFound_) IN
     Return(t, how, how \in {"no_nodes", "no_variables"})
  /\ UNCHANGED <<context, fields, counters>>

\* ------------------------------------------------------------- specifications
\* The invocations of a processor scheduled with one of RunContexts.
Next ==
  \/ \E c \in RunContexts, baseOK \in BOOLEAN : OnSchedule(c, baseOK)
  \/ \E t \in Threads : OnTriggerEnter(t)
  \/ \E t \in Threads : TryLock(t)
  \/ \E t \in Threads, ok \in BOOLEAN : Reconnect(t, ok)
  \/ \E t \in Threads : ResetNodesFound(t)
  \/ \E t \in Threads : ResetVariablesFound(t)
  \/ \E t \in Threads : Dispatch(t)
  \/ \E t \in Threads, r \in TranslateResults(nodeID_) : Translate(t, r)
  \/ \E t \in Threads : CheckTranslation(t)
  \/ \E t \in Threads : NextRoot(t)
  \/ \E t \in Threads, size \in 0..MaxNodes, depth \in 0..MaxEdges : Traverse(t, size, depth)
  \/ \E t \in Threads : TraverseFault(t)
  \/ \E t \in Threads, class \in NodeClasses : CallBackEnter(t, class)
  \/ \E t \in Threads, r \in GetNodeDataResults : GetNodeData(t, r)
  \/ \E t \in Threads, ok \in BOOLEAN : SessionCreate(t, ok)
  \/ \E t \in Threads : SetAttributes(t)
  \/ \E t \in Threads, ok \in BOOLEAN : WritePayload(t, ok)
  \/ \E t \in Threads : TransferFailure(t)
  \/ \E t \in Threads : TransferSuccess(t)
  \/ \E t \in Threads : CountVariable(t)
  \/ \E t \in Threads, depth \in 0..MaxEdges : CallBackReturn(t, depth)
  \/ \E t \in Threads : Final(t)

Spec == Init /\ [][Next]_vars

\* Every configuration and reconfiguration, and the start of the invocations after
\* it, up to the connection attempt.
NextConfig ==
  \/ \E c \in Contexts, baseOK \in BOOLEAN : OnSchedule(c, baseOK)
  \/ \E t \in Threads : OnTriggerEnter(t)
  \/ \E t \in Threads : TryLock(t)
  \/ \E t \in Threads, ok \in BOOLEAN : Reconnect(t, ok)

SpecConfig == Init /\ [][NextConfig]_vars

\* ------------------------------------------------------------- properties
\* A text that is an integer: an optional sign and then digits only, at least one.
IsIntegerText(s) ==
  LET u == IF s # <<>> /\ Head(s) \in {"-", "+"} THEN Tail(s) ELSE s
  IN  u # <<>> /\ \A i \in 1..Len(u) : u[i] \in Digits

Running(t) == pc[t] \in RunningPCs
Routed(t) == sess[t].Success + sess[t].Failure

\* C1: at most one invocation is Running (past the execution guard) at any time, and
\* the Running one owns the mutex; an invocation that finds the guard held is never
\* blocked at the guard, and its next step is the return, the guard left as it was.
C1_OneRunning ==
  /\ Cardinality({t \in Threads : Running(t)}) <= 1
  /\ \A t \in Threads : Running(t) => onTriggerMutex_ = t
  /\ \A t \in Threads : pc[t] = "trylock" => ENABLED TryLock(t)
  /\ last.how = "skipped" =>
       /\ pc[last.thread] = "idle"
       /\ \E u \in Threads \ {last.thread} : Running(u)

C1_SkipReturns ==
  \A t \in Threads :
    (pc[t] = "trylock" /\ onTriggerMutex_ # NoThread /\ pc'[t] # pc[t]) =>
      /\ pc'[t] = "idle"
      /\ last' = [thread |-> t, how |-> "skipped", yielded |-> FALSE]
      /\ UNCHANGED <<onTriggerMutex_, fields, counters>>

C1_GuardExcludes == [](C1_OneRunning) /\ [][C1_SkipReturns]_vars

\* C1 witness: one thread is in the middle of its traversal and another has just
\* been sent away at the guard.
C1_Witness ==
  /\ last.how = "skipped"
  /\ \E u \in Threads : pc[u] = "cb_read" /\ onTriggerMutex_ = u

\* C2: while the configuration is not valid no thread is past the configuration
\* test, and every step an invocation takes is the immediate return with yield():
\* nothing is connected, resolved, traversed or emitted and no field changes.
C2_NobodyPastTheTest == ~configOK_ => \A t \in Threads : pc[t] = "idle"

C2_OnlyYield ==
  (~configOK_ /\ last' # NoReturn) =>
    /\ last'.how = "not_configured"
    /\ last'.yielded
    /\ UNCHANGED <<fields, counters, onTriggerMutex_, pc, local, flowFile, sess>>

C2_FailedConfigurationYields == [](C2_NobodyPastTheTest) /\ [][C2_OnlyYield]_vars

\* C2 witness: the configuration failed on an Int identifier that does not convert,
\* after an earlier invocation had found nodes, and an invocation has yielded.
C2_Witness ==
  /\ last.how = "not_configured"
  /\ last.yielded
  /\ context.nodeIDType = "Int"
  /\ ~stoi(context.nodeID).ok
  /\ nodesFound_ > 0

\* C3: when the identifier mode is Int and the raw node identifier is not an integer
\* text, onSchedule leaves configOK_ false.
C3_IntNeedsIntegerText ==
  (context.nodeIDType = "Int" /\ ~IsIntegerText(context.nodeID)) => ~configOK_

\* C4: a configuration whose identifier mode is none of Path, Int and String leaves
\* configOK_ false, whatever mode an earlier configuration had set.  It is stated of
\* the reconfiguration of a Configured processor, so that idType_ holds what the
\* configuration before it set.
C4_UnknownModeAfterKnown ==
  (configOK_ /\ context.nodeIDType \in OPCNodeIDType
             /\ context'.nodeIDType \notin OPCNodeIDType) => ~configOK_'

C4_UnknownModeFails == [][C4_UnknownModeAfterKnown]_vars

\* C5: when the identifier mode is Int or String and no namespace index is supplied,
\* configOK_ stays false and no invocation gets past the configuration test (so
\* none attempts to connect).
C5_NamespaceIndexRequired ==
  (context.nodeIDType \in {"Int", "String"} /\ ~context.nsSupplied) =>
    /\ ~configOK_
    /\ \A t \in Threads : pc[t] = "idle"

\* C6 as stated: variablesFound_ <= nodesFound_ in every reachable state.
C6_VariablesAtMostNodes == variablesFound_ <= nodesFound_

\* C6 amended: variablesFound_ <= nodesFound_ in every reachable state but the one
\* between the two resets (line 152 done, line 153 not yet), in which
\* variablesFound_ still holds the count of the invocation before.
C6_VariablesAtMostNodesButInReset ==
  (\A t \in Threads : pc[t] # "reset_variables") => variablesFound_ <= nodesFound_

\* C6 witness: an invocation has counted variables and other nodes while another
\* thread stands at the guard.
C6_Witness ==
  \E t, u \in Threads :
    /\ pc[t] = "cb_return"
    /\ pc[u] = "trylock"
    /\ variablesFound_ >= 1
    /\ nodesFound_ > variablesFound_

\* C7: every record created is routed exactly once, to Success or to Failure: a
\* record is never routed twice, it is routed when OPCData2FlowFile has returned,
\* and between two visits the session has routed as many records as it created.
C7_RoutedExactlyOnce ==
  \A t \in Threads :
    /\ Len(flowFile[t].routes) <= 1
    /\ \A i \in 1..Len(flowFile[t].routes) : flowFile[t].routes[i] \in {"Success", "Failure"}
    /\ (flowFile[t].exists /\ pc[t] \in {"cb_count", "cb_return"}) =>
         Len(flowFile[t].routes) = 1
    /\ sess[t].created = Routed(t) + (IF flowFile[t].exists /\ flowFile[t].routes = <<>>
                                        THEN 1 ELSE 0)
    /\ pc[t] \in {"cb_enter", "loop", "traverse", "final"} => sess[t].created = Routed(t)

\* C7 witness: the visitor is about to return with its record routed to Failure
\* after an earlier record went to Success.
C7_Witness ==
  \E t \in Threads :
    /\ pc[t] = "cb_return"
    /\ flowFile[t].routes = <<"Failure">>
    /\ sess[t].Success >= 1

\* C8: when the traversals of an invocation are over, the number of records routed
\* equals variablesFound_.
C8_RoutedEqualsVariablesFound ==
  \A t \in Threads : pc[t] = "final" => Routed(t) = variablesFound_

\* C9: when reading a variable node throws, the visitor returns with no record
\* created or routed, variablesFound_ as it found it, nodesFound_ one higher, and
\* the answer "continue"; and every traverse call hands over every reference it
\* has to offer, so that at the end nodesFound_ counts them all.
C9_ReadFailureIsolated ==
  \A t \in Threads :
    /\ (pc[t] = "cb_return" /\ local[t].read = "failed") =>
         /\ ~flowFile[t].exists
         /\ sess[t] = local[t].entry.sess
         /\ variablesFound_ = local[t].entry.variables
         /\ nodesFound_ = local[t].entry.nodes + 1
         /\ CallBackAnswer(local[t].read)
    /\ pc[t] \in {"loop", "final"} =>
         /\ local[t].pos = local[t].size
         /\ nodesFound_ = local[t].offered

\* C9 witness: a read has failed after a variable was extracted and with references
\* still to come.
C9_Witness ==
  \E t \in Threads :
    /\ pc[t] = "cb_return"
    /\ local[t].read = "failed"
    /\ local[t].entry.variables >= 1
    /\ local[t].pos < local[t].size

\* C10: a routed record went to Failure exactly when its node has a value and the
\* write of the value failed, and to Success exactly when the node has no value or
\* the write succeeded; either way it carries every attribute of the node data.
C10_FailureIffWriteFailed ==
  \A t \in Threads :
    (flowFile[t].exists /\ flowFile[t].routes # <<>>) =>
      /\ flowFile[t].routes = <<"Failure">> <=>
           (local[t].data.hasData /\ flowFile[t].write = "failed")
      /\ flowFile[t].routes = <<"Success">> <=>
           (~local[t].data.hasData \/ flowFile[t].write = "ok")
      /\ flowFile[t].attributes = local[t].data.attributes
      /\ flowFile[t].payload <=> (local[t].data.hasData /\ flowFile[t].write = "ok")

\* C10 witness: a record whose write failed is routed to Failure with its attributes.
C10_Witness ==
  \E t \in Threads :
    /\ flowFile[t].routes = <<"Failure">>
    /\ flowFile[t].write = "failed"
    /\ flowFile[t].attributes # {}

\* C11: an invocation that has completed its traversals returns with yield() called
\* exactly when nodesFound_ = 0 or variablesFound_ = 0, and without it when both
\* counters are positive; the counters are those the traversals left.
C11_CompletedReturn ==
  \A t \in Threads :
    (pc[t] = "final" /\ pc'[t] = "idle") =>
      /\ last'.thread = t
      /\ last'.yielded <=> (nodesFound_ = 0 \/ variablesFound_ = 0)
      /\ (nodesFound_ > 0 /\ variablesFound_ > 0) => last'.how = "done"
      /\ UNCHANGED counters

C11_YieldIffNothingFound == [][C11_CompletedReturn]_vars

\* C11 witness: an invocation that found nodes but no variable has yielded.
C11_Witness ==
  /\ last.how = "no_variables"
  /\ last.yielded
  /\ nodesFound_ >= 2
  /\ variablesFound_ = 0

\* A step of onSchedule: the start of a configuration generation.
Reconfigured ==
  /\ \A t \in Threads : pc[t] = "idle"
  /\ \E c \in Contexts, baseOK \in BOOLEAN : OnSchedule(c, baseOK)

\* C12: within one configuration generation, once the cache holds the node ids of
\* a resolution, no invocation issues a translation request (none is at line 169
\* with a filled cache, and line 168 sends it straight to the loop over the cache)
\* and no step changes the cache.
C12_NoRequestWhileCached ==
  \A t \in Threads : pc[t] = "translate" => translatedNodeIDs_ = <<>>

C12_CacheKept ==
  (translatedNodeIDs_ # <<>> /\ ~Reconfigured) =>
    /\ UNCHANGED translatedNodeIDs_
    /\ \A t \in Threads :
         (pc[t] = "dispatch" /\ pc'[t] # pc[t]) =>
           /\ pc'[t] = "loop"
           /\ Roots(t)' = translatedNodeIDs_

C12_CachedResolutionReused == [](C12_NoRequestWhileCached) /\ [][C12_CacheKept]_vars

\* C12 witness: an invocation in Path mode stands at line 168 with the cache filled
\* by an invocation before it.
C12_Witness ==
  \E t \in Threads :
    /\ pc[t] = "dispatch"
    /\ idType_ = "Path"
    /\ Len(translatedNodeIDs_) = MaxRoots

\* C13: when the translation request does not give UA_STATUSCODE_GOOD, the next
\* step of the invocation is the return with yield(), with no traverse call, the
\* cache empty and the mutex free; and an invocation in Path mode that finds the
\* cache empty issues the request.
C13_FailedRequest ==
  \A t \in Threads :
    /\ (pc[t] = "translated" /\ local[t].sc # "GOOD" /\ pc'[t] # pc[t]) =>
         /\ pc'[t] = "idle"
         /\ last' = [thread |-> t, how |-> "not_translated", yielded |-> TRUE]
         /\ translatedNodeIDs_' = <<>>
         /\ onTriggerMutex_' = NoThread
         /\ UNCHANGED <<configOK_, counters>>
    /\ (pc[t] = "dispatch" /\ idType_ = "Path" /\ translatedNodeIDs_ = <<>>
          /\ pc'[t] # pc[t]) => pc'[t] = "translate"

C13_FailedResolutionNotCached == [][C13_FailedRequest]_vars

\* C13 witness: an invocation has returned on a failed translation request.
C13_Witness ==
  /\ last = [thread |-> last.thread, how |-> "not_translated", yielded |-> TRUE]
  /\ last.thread \in Threads
  /\ translatedNodeIDs_ = <<>>
  /\ idType_ = "Path"

\* C14: an invocation in Path mode whose list of node ids is empty after the
\* resolution makes no traverse call: its loop ends at once, and it returns by the
\* branch of line 181 (a warning and yield()).
C14_NoTraverseCall ==
  \A t \in Threads :
    (pc[t] \in {"traverse", "cb_enter", "cb_read", "cb_count", "cb_return"}
      /\ ~local[t].direct) => translatedNodeIDs_ # <<>>

C14_EmptyListStep ==
  \A t \in Threads :
    (pc[t] \in {"loop", "final"} /\ ~local[t].direct /\ translatedNodeIDs_ = <<>>
      /\ pc'[t] # pc[t]) =>
        /\ pc[t] = "loop" => pc'[t] = "final"
        /\ pc[t] = "final" =>
             last' = [thread |-> t, how |-> "no_nodes", yielded |-> TRUE]

C14_EmptyRootListYields == [](C14_NoTraverseCall) /\ [][C14_EmptyListStep]_vars

\* C14 witness: an invocation in Path mode has returned by line 181 with the cache
\* still empty.
C14_Witness ==
  /\ last.how = "no_nodes"
  /\ last.yielded
  /\ idType_ = "Path"
  /\ translatedNodeIDs_ = <<>>
  /\ context.nodeIDType = "Path"

\* C15: when a traverse call of the invocation met a remote fault, the invocation
\* returns with yield() called; and no step of a running invocation takes back a
\* record its session has routed.
C15_FaultStep ==
  \A t \in Threads :
    /\ (pc[t] = "final" /\ local[t].fault /\ pc'[t] = "idle") => last'.yielded
    /\ (Running(t) /\ Running(t)') =>
         /\ sess'[t].Success >= sess[t].Success
         /\ sess'[t].Failure >= sess[t].Failure

C15_TraversalFaultYields == [][C15_FaultStep]_vars

\* C16: an invocation that leaves the connection test by a return has yielded, with
\* the cache, configOK_, the other configuration fields and the counters as they
\* were, no request and no traverse call made, and the mutex free; after it the
\* configuration is still valid, so that the next invocation passes the test of
\* line 133, takes the free mutex and comes to reconnect() again.
C16_FailedConnectionStep ==
  \A t \in Threads :
    /\ (pc[t] = "reconnect" /\ pc'[t] = "idle") =>
         /\ last' = [thread |-> t, how |-> "not_connected", yielded |-> TRUE]
         /\ UNCHANGED <<fields, counters>>
         /\ onTriggerMutex_' = NoThread
    /\ (pc[t] = "idle" /\ configOK_ /\ pc'[t] # pc[t]) => pc'[t] = "trylock"
    /\ (pc[t] = "trylock" /\ onTriggerMutex_ = NoThread /\ pc'[t] # pc[t]) =>
         pc'[t] = "reconnect"

C16_AfterFailedConnection ==
  last.how = "not_connected" =>
    /\ last.yielded
    /\ configOK_
    /\ onTriggerMutex_ = NoThread
    /\ pc[last.thread] = "idle"
    /\ ENABLED OnTriggerEnter(last.thread)

C16_ConnectionFailureLeavesState ==
  [](C16_AfterFailedConnection) /\ [][C16_FailedConnectionStep]_vars

\* C16 witness: an invocation has yielded for want of a connection, with the cache
\* filled and the counters of the invocation before it in place.
C16_Witness ==
  /\ last.how = "not_connected"
  /\ last.yielded
  /\ translatedNodeIDs_ # <<>>
  /\ nodesFound_ > 0
  /\ variablesFound_ > 0

\* C17: every onSchedule call empties the cache, also one that leaves configOK_
\* false; no step of an onTrigger invocation empties a filled cache; and every node
\* id in the cache was resolved from the path of the configuration in force.
C17_ClearedByOnScheduleOnly ==
  /\ Reconfigured => translatedNodeIDs_' = <<>>
  /\ (~Reconfigured /\ translatedNodeIDs_ # <<>>) => translatedNodeIDs_' # <<>>

C17_NoStaleReference ==
  /\ \A i \in 1..Len(translatedNodeIDs_) :
       translatedNodeIDs_[i] \in {PathNodeId(nodeID_, k) : k \in 1..MaxRoots}
  /\ translatedNodeIDs_ # <<>> => (configOK_ /\ idType_ = "Path")

C17_CacheClearedOnReconfiguration ==
  [](C17_NoStaleReference) /\ [][C17_ClearedByOnScheduleOnly]_vars

\* C17 witness: an onSchedule call that ended with configOK_ false has left the
\* cache empty, after a generation in Path mode and an invocation that counted
\* variables.
C17_Witness ==
  /\ ~configOK_
  /\ idType_ = "Path"
  /\ translatedNodeIDs_ = <<>>
  /\ variablesFound_ > 0
  /\ \A t \in Threads : pc[t] = "idle"

\* C18: every traverse call of an invocation is given the configured max depth,
\* and with a max depth d > 0 no reference the walk hands to the visitor is more
\* than d edges from the root of the call.
C18_DepthBounded ==
  \A t \in Threads :
    /\ pc[t] \in {"cb_enter", "cb_read", "emit_create", "emit_attributes", "emit_write",
                  "emit_failure", "emit_success", "cb_count", "cb_return"} =>
         /\ local[t].maxDepth = context.maxDepth
         /\ local[t].maxDepth = maxDepth_
    /\ (pc[t] \in {"loop", "final"} /\ local[t].root > 1) =>
         local[t].maxDepth = context.maxDepth
    /\ (pc[t] = "cb_enter" /\ context.maxDepth > 0) =>
         local[t].depth <= context.maxDepth

\* C18 witness: the second traverse call of an invocation, with max depth 1, hands
\* over a reference one edge below its root.
C18_Witness ==
  \E t \in Threads :
    /\ pc[t] = "cb_enter"
    /\ local[t].root = 2
    /\ context.maxDepth = 1
    /\ local[t].depth = 1

\* C19: the cache and configOK_ are not written while an invocation other than the
\* writer is Running, and every write to the cache is made with the mutex held.
C19_WriteStep ==
  /\ (translatedNodeIDs_' # translatedNodeIDs_ \/ configOK_' # configOK_) =>
       \A t \in Threads : Running(t) => (pc[t] = "translate" /\ onTriggerMutex_ = t)
  /\ translatedNodeIDs_' # translatedNodeIDs_ => onTriggerMutex_ \in Threads

C19_WritesUnderGuard == [][C19_WriteStep]_vars

\* The ways an invocation that acquired the mutex leaves onTrigger.
GuardedExits ==
  {"not_connected", "exception", "not_translated", "no_nodes", "no_variables", "done"}

\* C20: the mutex is held only by a Running invocation: whichever way an invocation
\* that acquired it has left onTrigger, the mutex is free, and an invocation that
\* comes to line 141 while no other is Running acquires it.
C20_GuardReleased ==
  /\ onTriggerMutex_ # NoThread => Running(onTriggerMutex_)
  /\ last.how \in GuardedExits =>
       /\ onTriggerMutex_ = NoThread
       /\ pc[last.thread] = "idle"
  /\ \A t \in Threads :
       (pc[t] = "trylock" /\ \A u \in Threads : ~Running(u)) =>
         TryToLock(onTriggerMutex_, t) = t

\* C20 witness: an invocation has returned normally while another thread stands at
\* line 141, about to acquire the mutex.
C20_Witness ==
  /\ last.how = "done"
  /\ onTriggerMutex_ = NoThread
  /\ \E u \in Threads \ {last.thread} : pc[u] = "trylock"

\* C21: the step of an invocation that finds the mutex held by another is its
\* return, and it changes nothing else: the counters, the cache, configOK_ and
\* the mutex are as they were, the running invocation's position, locals, record
\* and session are as they were, and the skipped invocation has made no connection
\* attempt, no request, no traverse call and no record.
C21_SkipStep ==
  \A t \in Threads :
    (pc[t] = "trylock" /\ onTriggerMutex_ \in Threads \ {t} /\ pc'[t] # pc[t]) =>
      /\ pc' = [pc EXCEPT ![t] = "idle"]
      /\ last' = [thread |-> t, how |-> "skipped", yielded |-> FALSE]
      /\ UNCHANGED <<counters, fields, context, onTriggerMutex_>>
      /\ \A u \in Threads \ {t} :
           /\ local'[u] = local[u]
           /\ flowFile'[u] = flowFile[u]
           /\ sess'[u] = sess[u]
      /\ sess[t] = NoSess /\ sess'[t] = NoSess
      /\ flowFile[t] = NoFlowFile /\ flowFile'[t] = NoFlowFile
      /\ local[t] = NoLocal /\ local'[t] = NoLocal

C21_SkippedInvocationIsNoOp == [][C21_SkipStep]_vars

\* C21 witness: an invocation has just been skipped while the running one, which
\* has counted nodes and routed a record, is in the middle of a visit.
C21_Witness ==
  /\ last.how = "skipped"
  /\ \E u \in Threads \ {last.thread} :
       /\ pc[u] = "cb_count"
       /\ sess[u].Success >= 1
       /\ nodesFound_ >= 2

\* The positions inside a visit, after the reference is counted.
VisitPCs ==
  {"cb_read", "emit_create", "emit_attributes", "emit_write", "emit_failure",
   "emit_success", "cb_count", "cb_return"}

\* C22: nodesFound_ counts every reference handed to the visitor once, whatever its
\* class: inside a visit it is one above what the visitor found, and at every
\* position of the traversals it is the number of references handed over so far.
\* A reference that is not a variable is not read, gets no record, and leaves
\* variablesFound_ and the session as the visitor found them.
C22_EveryReferenceCounted ==
  \A t \in Threads :
    /\ pc[t] \in VisitPCs =>
         /\ nodesFound_ = local[t].entry.nodes + 1
         /\ local[t].class \in NodeClasses
    /\ pc[t] \in VisitPCs \cup {"cb_enter", "loop", "traverse", "final"} =>
         nodesFound_ = local[t].offered - local[t].size + local[t].pos
    /\ (pc[t] \in VisitPCs /\ local[t].class # "Variable") =>
         /\ pc[t] = "cb_return"
         /\ local[t].read = "none"
         /\ local[t].data = NoNodeData
         /\ ~flowFile[t].exists
         /\ sess[t] = local[t].entry.sess
         /\ variablesFound_ = local[t].entry.variables

\* C22 witness: the visitor is about to return from a reference that is not a
\* variable, after a variable was counted.
C22_Witness ==
  \E t \in Threads :
    /\ pc[t] = "cb_return"
    /\ local[t].class = "Object"
    /\ local[t].entry.variables >= 1
    /\ nodesFound_ = MaxNodes

\* C23: both counters are zero when the invocation, holding the mutex and past
\* reconnect(), comes to the branch on the mode, and still when its first traverse
\* call starts; a counter goes down only by the reset of the invocation that
\* holds the mutex; the node ids are traversed one after the other by their index
\* in the list, each once, and at the end nodesFound_ is the total over all of
\* them, on which the yield decision is taken.
C23_ResetBeforeTraversal ==
  \A t \in Threads :
    /\ pc[t] \in {"reset_nodes", "reset_variables", "dispatch"} => onTriggerMutex_ = t
    /\ (pc[t] \in {"dispatch", "translate", "translated"}
          \/ (pc[t] \in {"loop", "traverse"} /\ local[t].root = 1)) =>
         /\ nodesFound_ = 0
         /\ variablesFound_ = 0
    /\ pc[t] \in VisitPCs \cup {"traverse", "cb_enter"} =>
         /\ local[t].root >= 1
         /\ local[t].root <= Len(Roots(t))
    /\ pc[t] = "final" =>
         /\ local[t].root = Len(Roots(t)) + 1
         /\ nodesFound_ = local[t].offered

C23_CounterStep ==
  /\ nodesFound_' < nodesFound_ =>
       \E t \in Threads : pc[t] = "reset_nodes" /\ pc'[t] = "reset_variables"
                            /\ nodesFound_' = 0
  /\ variablesFound_' < variablesFound_ =>
       \E t \in Threads : pc[t] = "reset_variables" /\ pc'[t] = "dispatch"
                            /\ variablesFound_' = 0
  /\ \A t \in Threads :
       /\ (Running(t) /\ Running(t)') =>
            local'[t].root \in {local[t].root, local[t].root + 1}
       /\ (pc[t] = "final" /\ pc'[t] = "idle") =>
            (last'.yielded <=> (local[t].offered = 0 \/ variablesFound_ = 0))

C23_CountersAccumulateOverRoots ==
  [](C23_ResetBeforeTraversal) /\ [][C23_CounterStep]_vars

\* C23 witness: the traversal of the second node id of the cache has handed over
\* its first reference, counted on top of those of the first node id.
C23_Witness ==
  \E t \in Threads :
    /\ pc[t] = "cb_return"
    /\ ~local[t].direct
    /\ local[t].root = 2
    /\ local[t].pos = 1
    /\ nodesFound_ >= 2
    /\ variablesFound_ >= 1

====
